---------------------------- MODULE Spec2Model ----------------------------
(***************************************************************************)
(* The data-access layer of the photo-sharing client (services/firebase):  *)
(* twelve async functions over the `users` and `photos` collections of the *)
(* remote document database.  The database is modelled by the documents it *)
(* holds, every call by its promise, and every request the layer sends to  *)
(* the service by a message in flight that the service later applies, or   *)
(* fails.                                                                  *)
(***************************************************************************)
EXTENDS Integers, Sequences, FiniteSets, TLC

(***************************************************************************)
(* The universe of the model.                                              *)
(***************************************************************************)
UserIds == {"u1", "u2"}
PostIds == {"p1", "p2"}
Comments == {"c1", "c2", "c3"}
Sessions == {"s1", "s2"}

Usernames == {"alice", "carol"}

\* The most calls the sessions issue in one behaviour.
MaxOps == 2

\* The largest limit a caller passes to a limited query.
MaxLimit == 3

\* The creation timestamps of photos.
Dates == {1, 2, 3}

\* The most registrations (an existence check, then an insert) in one behaviour.
MaxRegistrations == 2

VARIABLES
    users,    \* the `users` collection: document id -> document
    photos,   \* the `photos` collection: document id -> document
    calls,    \* session -> the call it issued last, with its promise
    writes,   \* the document writes sent to the service and not yet answered
    nops,     \* the number of calls issued so far
    before    \* the `users` collection as it was before the first call

vars == <<users, photos, calls, writes, nops, before>>

(***************************************************************************)
(* Arrays and the service's two array transforms.                          *)
(***************************************************************************)
Range(seq) == {seq[i] : i \in 1..Len(seq)}

NoDuplicates(seq) == \A i, j \in 1..Len(seq) : seq[i] = seq[j] => i = j

\* The arrays over a set of elements that hold no element twice.
Arrays(S) ==
    {seq \in UNION {[1..n -> S] : n \in 0..Cardinality(S)} : NoDuplicates(seq)}

\* A read-modify-write push, which FieldValue.arrayUnion is not.
ArrayPush(arr, x) == Append(arr, x)

\* FieldValue.arrayUnion: x is appended unless the array holds it already.
ArrayUnion(arr, x) == IF x \in Range(arr) THEN arr ELSE Append(arr, x)

\* FieldValue.arrayRemove: every occurrence of x is removed.
ArrayRemove(arr, x) == SelectSeq(arr, LAMBDA e : e # x)

\* What `update` does to a field, given the transform or the value it was handed.
Transform(t, arr) ==
    CASE t.kind = "union"  -> ArrayUnion(arr, t.elem)
      [] t.kind = "remove" -> ArrayRemove(arr, t.elem)
      [] t.kind = "set"    -> t.value

Union(x) == [kind |-> "union", elem |-> x, value |-> <<>>]
Remove(x) == [kind |-> "remove", elem |-> x, value |-> <<>>]

(***************************************************************************)
(* The field transform each toggle hands to `update`: the status flag is   *)
(* the caller's view of the stored state, true = present -> remove.        *)
(***************************************************************************)
FollowingTransformInverted(suggestedUserId, userFollowingStatus) ==
    IF userFollowingStatus THEN Union(suggestedUserId) ELSE Remove(suggestedUserId)

FollowingTransform(suggestedUserId, userFollowingStatus) ==
    IF userFollowingStatus THEN Remove(suggestedUserId) ELSE Union(suggestedUserId)

FollowersTransform(userId, userFollowingStatus) ==
    IF userFollowingStatus THEN Remove(userId) ELSE Union(userId)

LikesTransform(userId, userLikedStatus) ==
    IF userLikedStatus THEN Remove(userId) ELSE Union(userId)

SavedTransform(userId, userSavedStatus) ==
    IF userSavedStatus THEN Remove(userId) ELSE Union(userId)

SavedPostsTransform(postId, userSavedStatus) ==
    IF userSavedStatus THEN Remove(postId) ELSE Union(postId)

CommentsTransformRemoving(newPostComment) == Remove(newPostComment)

CommentsTransform(newPostComment) == Union(newPostComment)

(***************************************************************************)
(* Calls.                                                                  *)
(***************************************************************************)
Idle ==
    [id |-> 0, op |-> "none", target |-> "", elem |-> "", status |-> FALSE,
     limit |-> 0, promise |-> "none", awaiting |-> "none", failed |-> FALSE,
     result |-> <<>>]

NewCall(op, target, elem, status) ==
    [id |-> nops + 1, op |-> op, target |-> target, elem |-> elem,
     status |-> status, limit |-> 0, promise |-> "pending",
     awaiting |-> "first", failed |-> FALSE, result |-> <<>>]

\* A read: the arguments are an id, an array (or nothing) and a limit (or none).
NewRead(op, userId, userFollowing, limitQuery) ==
    [NewCall(op, userId, userFollowing, FALSE) EXCEPT !.limit = limitQuery]

\* A session issues one call at a time: it awaits the promise of the last one.
CanCall(s) == calls[s].promise # "pending"

\* Fewer than n calls have been issued.
Within(n) == nops < n

Issue(s, call) ==
    /\ CanCall(s)
    /\ calls' = [calls EXCEPT ![s] = call]
    /\ nops' = nops + 1
    /\ UNCHANGED before

\* `update` on a document: the promise of the call is the promise of the update.
Write(s, coll, doc, field, t, awaited) ==
    [id |-> IF calls[s].promise = "pending" THEN calls[s].id ELSE nops + 1,
     session |-> s, coll |-> coll, doc |-> doc, field |-> field, t |-> t,
     awaited |-> awaited]

(***************************************************************************)
(* updateUserFollowingField: a query for the acting user's documents, and, *)
(* once it has returned, one update per document.  The updates' promises   *)
(* are dropped (docs.map without return or await), so the call resolves    *)
(* when they have been sent.                                               *)
(***************************************************************************)
UpdateUserFollowingField(s, suggestedUserId, userId, userFollowingStatus) ==
    /\ Issue(s, NewCall("updateUserFollowingField", userId, suggestedUserId,
                        userFollowingStatus))
    /\ UNCHANGED <<users, photos, writes>>

FollowingQueryReturns(s) ==
    /\ calls[s].op = "updateUserFollowingField"
    /\ calls[s].promise = "pending"
    /\ LET docs == {d \in DOMAIN users : users[d].userId = calls[s].target}
       IN  writes' = writes \cup
               {Write(s, "users", d, "following",
                      FollowingTransform(calls[s].elem, calls[s].status), FALSE)
                  : d \in docs}
    /\ calls' = [calls EXCEPT ![s].promise = "resolved"]
    /\ UNCHANGED <<users, photos, nops, before>>

\* The calls that start with an awaited query.
Queries ==
    {"updateUserFollowingField", "doesUserExist", "getSuggestedProfilesByUserId",
     "getUserPhotosByUserId", "getFollowingUserPhotosByUserId",
     "getUserDataByUserId"}

\* A query the service fails: the await throws and the call rejects.
QueryFails(s) ==
    /\ calls[s].op \in Queries
    /\ calls[s].promise = "pending"
    /\ calls' = [calls EXCEPT ![s].promise = "rejected", ![s].failed = TRUE,
                              ![s].result = <<>>]
    /\ UNCHANGED <<users, photos, writes, nops, before>>

(***************************************************************************)
(* doesUserExist: the number of documents the username query returns.      *)
(***************************************************************************)
DoesUserExist(s, username) ==
    /\ Issue(s, NewCall("doesUserExist", "", username, FALSE))
    /\ UNCHANGED <<users, photos, writes>>

ExistQueryReturns(s) ==
    /\ calls[s].op = "doesUserExist"
    /\ calls[s].promise = "pending"
    /\ LET docs == {d \in DOMAIN users : users[d].username = calls[s].elem}
       IN  calls' = [calls EXCEPT ![s].promise = "resolved",
                                  ![s].result = Cardinality(docs)]
    /\ UNCHANGED <<users, photos, writes, nops, before>>

(***************************************************************************)
(* What a query hands back: the documents that match, cut to the limit,    *)
(* in an order the service chooses.                                        *)
(***************************************************************************)
Min(a, b) == IF a < b THEN a ELSE b

\* The orders in which the service may return `limit` of the documents D.
Fetched(D, limit) ==
    {seq \in [1..Min(limit, Cardinality(D)) -> D] : NoDuplicates(seq)}

\* docs.map((doc) => ({ ...doc.data(), docId: doc.id }))
WithDocId(coll, docs) == [i \in 1..Len(docs) |-> [docId |-> docs[i]] @@ coll[docs[i]]]

(***************************************************************************)
(* getSuggestedProfilesByUserId: up to limitQuery user documents, less the *)
(* requesting user and the users it follows.                               *)
(***************************************************************************)
\* The filter without its second test.
SuggestedProfilesNotSelf(profiles, userId, userFollowing) ==
    SelectSeq(profiles, LAMBDA profile : profile.userId # userId)

SuggestedProfiles(profiles, userId, userFollowing) ==
    SelectSeq(profiles, LAMBDA profile :
        profile.userId # userId /\ profile.userId \notin Range(userFollowing))

GetSuggestedProfilesByUserId(s, userId, userFollowing, limitQuery) ==
    /\ Issue(s, NewRead("getSuggestedProfilesByUserId", userId, userFollowing,
                        limitQuery))
    /\ UNCHANGED <<users, photos, writes>>

SuggestedQueryReturns(s) ==
    /\ calls[s].op = "getSuggestedProfilesByUserId"
    /\ calls[s].promise = "pending"
    /\ \E docs \in Fetched(DOMAIN users, calls[s].limit) :
          calls' = [calls EXCEPT
                      ![s].promise = "resolved",
                      ![s].result = SuggestedProfiles(WithDocId(users, docs),
                                        calls[s].target, calls[s].elem)]
    /\ UNCHANGED <<users, photos, writes, nops, before>>

(***************************************************************************)
(* getUserPhotosByUserId: up to limitQuery photos of the user, then sorted *)
(* by the comparator b.dateCreated - a.dateCreated (Array.prototype.sort   *)
(* is stable).                                                             *)
(***************************************************************************)
\* The comparator with its operands swapped: oldest first.
ComparePhotosOldestFirst(a, b) == a.dateCreated - b.dateCreated

ComparePhotos(a, b) == b.dateCreated - a.dateCreated

\* x goes before the first element the comparator puts after it.
RECURSIVE SortedInsert(_, _)
SortedInsert(sorted, x) ==
    IF sorted = <<>> THEN <<x>>
    ELSE IF ComparePhotos(Head(sorted), x) > 0
         THEN <<x>> \o sorted
         ELSE <<Head(sorted)>> \o SortedInsert(Tail(sorted), x)

RECURSIVE Sort(_)
Sort(seq) ==
    IF seq = <<>> THEN <<>>
    ELSE SortedInsert(Sort(SubSeq(seq, 1, Len(seq) - 1)), seq[Len(seq)])

GetUserPhotosByUserId(s, userId, limitQuery) ==
    /\ Issue(s, NewRead("getUserPhotosByUserId", userId, <<>>, limitQuery))
    /\ UNCHANGED <<users, photos, writes>>

UserPhotosQueryReturns(s) ==
    /\ calls[s].op = "getUserPhotosByUserId"
    /\ calls[s].promise = "pending"
    /\ \E docs \in Fetched({d \in DOMAIN photos :
                                photos[d].userId = calls[s].target},
                            calls[s].limit) :
          calls' = [calls EXCEPT ![s].promise = "resolved",
                                 ![s].result = Sort(WithDocId(photos, docs))]
    /\ UNCHANGED <<users, photos, writes, nops, before>>

(***************************************************************************)
(* getFollowingUserPhotosByUserId: the photos of the followed users, each  *)
(* with userLikedPhoto, userSavedPhoto and, from one getUserDataByUserId   *)
(* per photo, its owner.  The service refuses an `in` filter on an empty   *)
(* array; an owner without a user document makes the destructuring throw.  *)
(***************************************************************************)
\* The saved flag computed from the wrong array.
FeedPhotoSavedFromLikes(photo, userId) ==
    photo @@ [userLikedPhoto |-> userId \in Range(photo.likes),
              userSavedPhoto |-> userId \in Range(photo.likes)]

FeedPhoto(photo, userId) ==
    photo @@ [userLikedPhoto |-> userId \in Range(photo.likes),
              userSavedPhoto |-> userId \in Range(photo.saved)]

\* getUserDataByUserId: the first document the userId query returns, if any.
UserData(userId) ==
    {[username |-> users[d].username, docId |-> d]
        : d \in {e \in DOMAIN users : users[e].userId = userId}}

\* getUserDataByUserId as a call: the query, and what the caller is handed once
\* it has returned, [user] = docs.map(...): the first document with its id, or
\* nothing (here the empty sequence) when no document matches.
GetUserDataByUserId(s, userId) ==
    /\ Issue(s, NewRead("getUserDataByUserId", userId, "", 0))
    /\ UNCHANGED <<users, photos, writes>>

UserDataQueryReturns(s) ==
    /\ calls[s].op = "getUserDataByUserId"
    /\ calls[s].promise = "pending"
    /\ LET D == {d \in DOMAIN users : users[d].userId = calls[s].target}
       IN  \E docs \in Fetched(D, Cardinality(D)) :
               calls' = [calls EXCEPT
                           ![s].promise = "resolved",
                           ![s].result = SubSeq(WithDocId(users, docs), 1,
                                                Min(1, Len(docs)))]
    /\ UNCHANGED <<users, photos, writes, nops, before>>

GetFollowingUserPhotosByUserId(s, userId, userFollowing) ==
    /\ Issue(s, NewRead("getFollowingUserPhotosByUserId", userId,
                        userFollowing, 0))
    /\ UNCHANGED <<users, photos, writes>>

FeedQueryReturns(s) ==
    /\ calls[s].op = "getFollowingUserPhotosByUserId"
    /\ calls[s].promise = "pending"
    /\ calls[s].awaiting = "first"
    /\ IF calls[s].elem = <<>>
       THEN calls' = [calls EXCEPT ![s].promise = "rejected"]
       ELSE LET match == {d \in DOMAIN photos :
                            photos[d].userId \in Range(calls[s].elem)}
            IN  \E docs \in Fetched(match, Cardinality(match)) :
                  LET fed == [i \in 1..Len(docs) |->
                                FeedPhoto(WithDocId(photos, docs)[i],
                                          calls[s].target)]
                  IN  calls' = [calls EXCEPT
                                  ![s].result = fed,
                                  ![s].awaiting = "owners",
                                  ![s].promise =
                                      IF fed = <<>> THEN "resolved" ELSE "pending"]
    /\ UNCHANGED <<users, photos, writes, nops, before>>

FeedOwnersReturn(s) ==
    /\ calls[s].op = "getFollowingUserPhotosByUserId"
    /\ calls[s].promise = "pending"
    /\ calls[s].awaiting = "owners"
    /\ LET fed == calls[s].result
       IN  IF \E i \in 1..Len(fed) : UserData(fed[i].userId) = {}
           THEN calls' = [calls EXCEPT ![s].promise = "rejected",
                                       ![s].result = <<>>]
           ELSE \E owner \in [1..Len(fed) -> UNION {UserData(u) : u \in UserIds}] :
                  /\ \A i \in 1..Len(fed) : owner[i] \in UserData(fed[i].userId)
                  /\ calls' = [calls EXCEPT
                                 ![s].promise = "resolved",
                                 ![s].result = [i \in 1..Len(fed) |->
                                                  [user |-> owner[i]] @@ fed[i]]]
    /\ UNCHANGED <<users, photos, writes, nops, before>>

(***************************************************************************)
(* createFirestoreUser: the object is added as it is, under a document id  *)
(* the service assigns.                                                    *)
(***************************************************************************)
NewDocIds == {"d3", "d4", "d5", "d6"}

CreateFirestoreUser(s, userObject) ==
    /\ Issue(s, NewCall("createFirestoreUser", "", userObject.username, FALSE))
    /\ writes' = writes \cup
          {Write(s, "users", "", "",
                 [kind |-> "add", elem |-> "", value |-> userObject], TRUE)}
    /\ UNCHANGED <<users, photos>>

(***************************************************************************)
(* The toggles and the comment append that return the update's promise.    *)
(***************************************************************************)
IssueUpdate(s, op, coll, doc, field, elem, status, t) ==
    /\ Issue(s, NewCall(op, doc, elem, status))
    /\ writes' = writes \cup {Write(s, coll, doc, field, t, TRUE)}
    /\ UNCHANGED <<users, photos>>

UpdateUserFollowersField(s, suggestedUserDocId, userId, userFollowingStatus) ==
    IssueUpdate(s, "updateUserFollowersField", "users", suggestedUserDocId,
                "followers", userId, userFollowingStatus,
                FollowersTransform(userId, userFollowingStatus))

\* The same toggle written as read, modify, write: the array as the caller last
\* read it, with the element added or removed, is written back whole.
UpdatePostLikesFieldReadModifyWrite(s, postDocId, userId, userLikedStatus) ==
    IssueUpdate(s, "updatePostLikesField", "photos", postDocId, "likes",
                userId, userLikedStatus,
                [kind |-> "set", elem |-> userId,
                 value |-> Transform(LikesTransform(userId, userLikedStatus),
                                     photos[postDocId].likes)])

UpdatePostLikesField(s, postDocId, userId, userLikedStatus) ==
    IssueUpdate(s, "updatePostLikesField", "photos", postDocId, "likes",
                userId, userLikedStatus, LikesTransform(userId, userLikedStatus))

UpdatePostSavedField(s, userDocId, userId, userSavedStatus) ==
    IssueUpdate(s, "updatePostSavedField", "photos", userDocId, "saved",
                userId, userSavedStatus, SavedTransform(userId, userSavedStatus))

UpdateUserSavedPostsField(s, userDocId, postId, userSavedStatus) ==
    IssueUpdate(s, "updateUserSavedPostsField", "users", userDocId,
                "savedPosts", postId, userSavedStatus,
                SavedPostsTransform(postId, userSavedStatus))

AddPostComments(s, postDocId, newPostComment) ==
    IssueUpdate(s, "addPostComments", "photos", postDocId, "comments",
                newPostComment, FALSE, CommentsTransform(newPostComment))

(***************************************************************************)
(* The service answers a write: it applies the transform to the document   *)
(* in one step, or fails it.  The layer has no catch, no retry and no      *)
(* compensation: a failure rejects the update's promise and nothing else.  *)
(***************************************************************************)
Collection(coll) == IF coll = "users" THEN users ELSE photos

Settle(w, outcome) ==
    IF w.awaited
    THEN [calls EXCEPT ![w.session].promise = outcome,
                       ![w.session].failed = (outcome = "rejected")]
    ELSE IF calls[w.session].id = w.id /\ outcome = "rejected"
         THEN [calls EXCEPT ![w.session].failed = TRUE]
         ELSE calls

\* The document after the update: one field transformed, in one step.
Applied(w) ==
    /\ w.doc \in DOMAIN Collection(w.coll)
    /\ IF w.coll = "users"
       THEN /\ users' = [users EXCEPT ![w.doc][w.field] = Transform(w.t, @)]
            /\ UNCHANGED photos
       ELSE /\ photos' = [photos EXCEPT ![w.doc][w.field] = Transform(w.t, @)]
            /\ UNCHANGED users

ApplyWrite(w) ==
    /\ w \in writes
    /\ Applied(w)
    /\ writes' = writes \ {w}
    /\ calls' = Settle(w, "resolved")
    /\ UNCHANGED <<nops, before>>

ApplyAdd(w) ==
    /\ w \in writes
    /\ w.t.kind = "add"
    /\ NewDocIds \ DOMAIN users # {}
    /\ users' = users @@ ((CHOOSE d \in NewDocIds \ DOMAIN users : TRUE)
                            :> w.t.value)
    /\ writes' = writes \ {w}
    /\ calls' = Settle(w, "resolved")
    /\ UNCHANGED <<photos, nops, before>>

\* A layer that caught the failure, sent the update again until the service
\* took it, and then rethrew.
FailWriteRetried(w) ==
    /\ w \in writes
    /\ Applied(w)
    /\ writes' = writes \ {w}
    /\ calls' = Settle(w, "rejected")
    /\ UNCHANGED <<nops, before>>

FailWrite(w) ==
    /\ w \in writes
    /\ writes' = writes \ {w}
    /\ calls' = Settle(w, "rejected")
    /\ UNCHANGED <<users, photos, nops, before>>

(***************************************************************************)
(* The layer under its callers: two signed-in clients, each acting for its *)
(* own user, call the toggles and the comment append with any target and   *)
(* any status flag, concurrently.  The database starts empty or populated. *)
(***************************************************************************)
UserDoc(userId, username, following, followers, savedPosts) ==
    [userId |-> userId, username |-> username, following |-> following,
     followers |-> followers, savedPosts |-> savedPosts]

PhotoDoc(userId, dateCreated, likes, saved, comments) ==
    [userId |-> userId, dateCreated |-> dateCreated, likes |-> likes,
     saved |-> saved, comments |-> comments]

EmptyUsers ==
    ("d1" :> UserDoc("u1", "alice", <<>>, <<>>, <<>>))
        @@ ("d2" :> UserDoc("u2", "bob", <<>>, <<>>, <<>>))

PopulatedUsers ==
    ("d1" :> UserDoc("u1", "alice", <<"u2">>, <<"u2">>, <<"p1">>))
        @@ ("d2" :> UserDoc("u2", "bob", <<"u1">>, <<"u1">>, <<"p2", "p1">>))

EmptyPhotos == ("p1" :> PhotoDoc("u1", 1, <<>>, <<>>, <<>>))

PopulatedPhotos ==
    ("p1" :> PhotoDoc("u1", 1, <<"u2", "u1">>, <<"u1", "u2">>, <<"c2", "c1">>))

InitCalls ==
    /\ calls = [s \in Sessions |-> Idle]
    /\ writes = {}
    /\ nops = 0
    /\ before = users

Init ==
    /\ \/ users = EmptyUsers /\ photos = EmptyPhotos
       \/ users = PopulatedUsers /\ photos = PopulatedPhotos
    /\ InitCalls

\* The user a session is signed in as, and that user's document.
Actor == [s \in Sessions |-> IF s = "s1" THEN "u1" ELSE "u2"]

ActorDoc == [s \in Sessions |-> IF s = "s1" THEN "d1" ELSE "d2"]

Next ==
    \/ \E s \in Sessions, x \in UserIds, f \in BOOLEAN :
         Within(MaxOps) /\ UpdateUserFollowingField(s, x, Actor[s], f)
    \/ \E s \in Sessions : FollowingQueryReturns(s)
    \/ \E s \in Sessions : QueryFails(s)
    \/ \E s \in Sessions, d \in DOMAIN users, f \in BOOLEAN :
         Within(MaxOps) /\ UpdateUserFollowersField(s, d, Actor[s], f)
    \/ \E s \in Sessions, d \in DOMAIN photos, f \in BOOLEAN :
         Within(MaxOps) /\ UpdatePostLikesField(s, d, Actor[s], f)
    \/ \E s \in Sessions, d \in DOMAIN photos, f \in BOOLEAN :
         Within(MaxOps) /\ UpdatePostSavedField(s, d, Actor[s], f)
    \/ \E s \in Sessions, p \in PostIds, f \in BOOLEAN :
         Within(MaxOps) /\ UpdateUserSavedPostsField(s, ActorDoc[s], p, f)
    \/ \E s \in Sessions, d \in DOMAIN photos, c \in Comments :
         Within(MaxOps) /\ AddPostComments(s, d, c)
    \/ \E w \in writes : ApplyWrite(w)
    \/ \E w \in writes : FailWrite(w)

Spec == Init /\ [][Next]_vars

(***************************************************************************)
(* Two calls: each session issues one call of the layer, with any          *)
(* arguments, and the two run in any interleaving.                         *)
(***************************************************************************)
First(s) == calls[s].id = 0

NextRace ==
    \/ \E s \in Sessions, x, u \in UserIds, f \in BOOLEAN :
         First(s) /\ UpdateUserFollowingField(s, x, u, f)
    \/ \E s \in Sessions : FollowingQueryReturns(s)
    \/ \E s \in Sessions : QueryFails(s)
    \/ \E s \in Sessions, d \in DOMAIN users, u \in UserIds, f \in BOOLEAN :
         First(s) /\ UpdateUserFollowersField(s, d, u, f)
    \/ \E s \in Sessions, d \in DOMAIN photos, u \in UserIds, f \in BOOLEAN :
         First(s) /\ UpdatePostLikesField(s, d, u, f)
    \/ \E s \in Sessions, d \in DOMAIN photos, u \in UserIds, f \in BOOLEAN :
         First(s) /\ UpdatePostSavedField(s, d, u, f)
    \/ \E s \in Sessions, d \in DOMAIN users, p \in PostIds, f \in BOOLEAN :
         First(s) /\ UpdateUserSavedPostsField(s, d, p, f)
    \/ \E s \in Sessions, d \in DOMAIN photos, c \in Comments :
         First(s) /\ AddPostComments(s, d, c)
    \/ \E w \in writes : ApplyWrite(w)
    \/ \E w \in writes : FailWrite(w)

SpecRace == Init /\ [][NextRace]_vars

(***************************************************************************)
(* Registration: every caller checks the username with doesUserExist and   *)
(* calls createFirestoreUser only when the check returned 0.  The steps of *)
(* two registrations interleave freely.                                    *)
(***************************************************************************)
\* The user id the authentication service gave the registering session.
NewUserId == [s \in Sessions |-> IF s = "s1" THEN "u3" ELSE "u4"]

RegisterCheck(s, username) ==
    /\ Within(2 * MaxRegistrations)
    /\ DoesUserExist(s, username)

RegisterInsert(s) ==
    /\ calls[s].op = "doesUserExist"
    /\ calls[s].promise = "resolved"
    /\ calls[s].result = 0
    /\ CreateFirestoreUser(s, UserDoc(NewUserId[s], calls[s].elem,
                                     <<>>, <<>>, <<>>))

NextRegister ==
    \/ \E s \in Sessions, n \in Usernames : RegisterCheck(s, n)
    \/ \E s \in Sessions : ExistQueryReturns(s)
    \/ \E s \in Sessions : QueryFails(s)
    \/ \E s \in Sessions : RegisterInsert(s)
    \/ \E w \in writes : ApplyAdd(w)
    \/ \E w \in writes : FailWrite(w)

SpecRegister == Init /\ [][NextRegister]_vars

(***************************************************************************)
(* A round trip: one caller toggles a follow and, once the update has been *)
(* applied, toggles it back with the opposite status flag.  The acting     *)
(* user's following set is any array; so is that of a second document,     *)
(* which belongs to the same user or to another.                           *)
(***************************************************************************)
InitToggle ==
    /\ users \in {[EmptyUsers EXCEPT !["d1"].following = f1,
                                     !["d2"].following = f2,
                                     !["d2"].userId = u]
                    : f1 \in Arrays(UserIds), f2 \in Arrays(UserIds),
                      u \in UserIds}
    /\ photos = EmptyPhotos
    /\ InitCalls

ToggleOnce(s, suggestedUserId, userId, userFollowingStatus) ==
    /\ nops = 0
    /\ UpdateUserFollowingField(s, suggestedUserId, userId, userFollowingStatus)

ToggleBack(s) ==
    /\ nops = 1
    /\ calls[s].promise = "resolved"
    /\ ~calls[s].failed
    /\ \A w \in writes : w.id # calls[s].id
    /\ UpdateUserFollowingField(s, calls[s].elem, calls[s].target,
                                ~calls[s].status)

NextToggle ==
    \/ \E x, u \in UserIds, f \in BOOLEAN : ToggleOnce("s1", x, u, f)
    \/ ToggleBack("s1")
    \/ FollowingQueryReturns("s1")
    \/ QueryFails("s1")
    \/ \E w \in writes : ApplyWrite(w)
    \/ \E w \in writes : FailWrite(w)

SpecToggle == InitToggle /\ [][NextToggle]_vars

(***************************************************************************)
(* A follow or unfollow as a caller keeps both sides of the graph: it      *)
(* calls updateUserFollowingField and updateUserFollowersField with the    *)
(* status it read, from a graph whose two sides agree.  The two calls are  *)
(* in flight together (slots s1 and s2 of the one caller); when exactly    *)
(* one has failed, the caller may issue that call again.                   *)
(***************************************************************************)
\* The graphs of two users in which following and followers agree.
FollowGraphs ==
    {[EmptyUsers EXCEPT
        !["d1"].following = IF e12 THEN <<"u2">> ELSE <<>>,
        !["d2"].followers = IF e12 THEN <<"u1">> ELSE <<>>,
        !["d2"].following = IF e21 THEN <<"u1">> ELSE <<>>,
        !["d1"].followers = IF e21 THEN <<"u2">> ELSE <<>>]
       : e12 \in BOOLEAN, e21 \in BOOLEAN}

InitFollow ==
    /\ users \in FollowGraphs
    /\ photos = EmptyPhotos
    /\ InitCalls

\* The document of a user, as the caller read it from the profile.
UserDocId(userId) == CHOOSE d \in DOMAIN users : users[d].userId = userId

Follows(actor, target) ==
    target \in Range(users[UserDocId(actor)].following)

FollowedBy(target, actor) ==
    actor \in Range(users[UserDocId(target)].followers)

\* Every request of the call has been answered.
Settled(s) ==
    /\ calls[s].promise \in {"resolved", "rejected"}
    /\ \A w \in writes : w.id # calls[s].id

FollowFirst(actor, target) ==
    /\ nops = 0
    /\ actor # target
    /\ UpdateUserFollowingField("s1", target, actor, Follows(actor, target))

FollowSecond ==
    /\ calls["s1"].id = 1
    /\ calls["s2"].id = 0
    /\ UpdateUserFollowersField("s2", UserDocId(calls["s1"].elem),
                                calls["s1"].target, calls["s1"].status)

FollowAgain(s) ==
    /\ Within(MaxOps + 1)
    /\ calls["s2"].id # 0
    /\ Settled("s1") /\ Settled("s2")
    /\ calls[s].failed
    /\ ~\A t \in Sessions : calls[t].failed
    /\ IF s = "s1"
       THEN UpdateUserFollowingField(s, calls[s].elem, calls[s].target,
                                     calls[s].status)
       ELSE UpdateUserFollowersField(s, calls[s].target, calls[s].elem,
                                     calls[s].status)

NextFollow ==
    \/ \E a, t \in UserIds : FollowFirst(a, t)
    \/ FollowSecond
    \/ \E s \in Sessions : FollowAgain(s)
    \/ FollowingQueryReturns("s1")
    \/ QueryFails("s1")
    \/ \E w \in writes : ApplyWrite(w)
    \/ \E w \in writes : FailWrite(w)

SpecFollow == InitFollow /\ [][NextFollow]_vars

(***************************************************************************)
(* A read after an awaited follow: one caller calls                        *)
(* updateUserFollowingField, awaits its promise and, when it has resolved,  *)
(* reads the acting user's document with getUserDataByUserId (slot s2 of   *)
(* the same caller, so that the first call stays on record).  The service  *)
(* keeps the caller's order: it serves the read when it has settled every  *)
(* update the caller sent before it.                                       *)
(***************************************************************************)
ReadAfterAwait ==
    /\ nops = 1
    /\ calls["s1"].op = "updateUserFollowingField"
    /\ calls["s1"].promise = "resolved"
    /\ GetUserDataByUserId("s2", calls["s1"].target)

ReadServedInOrder ==
    /\ \A w \in writes : w.session # "s1"
    /\ UserDataQueryReturns("s2")

NextAwait ==
    \/ \E x, u \in UserIds, f \in BOOLEAN : ToggleOnce("s1", x, u, f)
    \/ ReadAfterAwait
    \/ FollowingQueryReturns("s1")
    \/ ReadServedInOrder
    \/ \E s \in Sessions : QueryFails(s)
    \/ \E w \in writes : ApplyWrite(w)
    \/ \E w \in writes : FailWrite(w)

SpecAwait == InitToggle /\ [][NextAwait]_vars

(***************************************************************************)
(* Reads.  The database does not change while one caller reads it; what it *)
(* holds is drawn from every content of the sizes below.                   *)
(***************************************************************************)
AllUserIds == UserIds \cup {"u3"}

\* Up to three user documents, of any users.
UsersContents ==
    UNION {[D -> {UserDoc(u, "carol", <<>>, <<>>, <<>>) : u \in AllUserIds}]
             : D \in {{}, {"d1"}, {"d1", "d2"}, {"d1", "d2", "d3"}}}

InitSuggest ==
    /\ users \in UsersContents
    /\ photos = EmptyPhotos
    /\ InitCalls

NextSuggest ==
    \/ \E u \in UserIds, F \in Arrays(UserIds), L \in 1..MaxLimit :
         First("s1") /\ GetSuggestedProfilesByUserId("s1", u, F, L)
    \/ SuggestedQueryReturns("s1")
    \/ QueryFails("s1")

SpecSuggest == InitSuggest /\ [][NextSuggest]_vars

\* Three photos, of any owners and dates.
DatedPhotos ==
    [{"p1", "p2", "p3"} ->
        {PhotoDoc(u, t, <<>>, <<>>, <<>>) : u \in UserIds, t \in Dates}]

InitPhotos ==
    /\ users = EmptyUsers
    /\ photos \in DatedPhotos
    /\ InitCalls

NextPhotos ==
    \/ \E u \in UserIds, L \in 1..MaxLimit :
         First("s1") /\ GetUserPhotosByUserId("s1", u, L)
    \/ UserPhotosQueryReturns("s1")
    \/ QueryFails("s1")

SpecPhotos == InitPhotos /\ [][NextPhotos]_vars

\* Two photos, of any owners, liked and saved by any users; the second user may
\* have no document.
LikedPhotos ==
    [{"p1", "p2"} ->
        {PhotoDoc(u, 1, l, v, <<>>)
            : u \in UserIds, l \in Arrays(UserIds), v \in Arrays(UserIds)}]

InitFeed ==
    /\ users \in {EmptyUsers, [d \in {"d1"} |-> EmptyUsers[d]]}
    /\ photos \in LikedPhotos
    /\ InitCalls

NextFeed ==
    \/ \E u \in UserIds, F \in Arrays(UserIds) :
         First("s1") /\ GetFollowingUserPhotosByUserId("s1", u, F)
    \/ FeedQueryReturns("s1")
    \/ FeedOwnersReturn("s1")
    \/ QueryFails("s1")

SpecFeed == InitFeed /\ [][NextFeed]_vars

(***************************************************************************)
(* What the claims speak of.                                               *)
(***************************************************************************)
Toggles ==
    {"updateUserFollowingField", "updateUserFollowersField",
     "updatePostLikesField", "updatePostSavedField",
     "updateUserSavedPostsField"}

FieldOf(op) ==
    CASE op = "updateUserFollowingField"  -> "following"
      [] op = "updateUserFollowersField"  -> "followers"
      [] op = "updatePostLikesField"      -> "likes"
      [] op = "updatePostSavedField"      -> "saved"
      [] op = "updateUserSavedPostsField" -> "savedPosts"
      [] op = "addPostComments"           -> "comments"

CollOf(op) ==
    IF op \in {"updatePostLikesField", "updatePostSavedField", "addPostComments"}
    THEN "photos" ELSE "users"

\* The documents a call updates.
DocsOf(c) ==
    IF c.op = "updateUserFollowingField"
    THEN {d \in DOMAIN users : users[d].userId = c.target}
    ELSE {c.target} \cap DOMAIN Collection(CollOf(c.op))

\* The call of session s has run to its end: its promise has resolved and every
\* update it sent has been applied.
Completed(s) ==
    /\ calls[s].promise = "resolved"
    /\ ~calls[s].failed
    /\ \A w \in writes : w.id # calls[s].id

\* The element is in the field after a toggle with flag false, and out of it
\* after a toggle with flag true.
EffectPresent(c) ==
    \A d \in DocsOf(c) :
        LET arr == Collection(CollOf(c.op))[d][FieldOf(c.op)]
        IN  IF c.status THEN c.elem \notin Range(arr) ELSE c.elem \in Range(arr)

(***************************************************************************)
(* C1.  Whatever toggles are called, with whatever status flags, no        *)
(* following, followers, likes, saved or savedPosts field ever holds an    *)
(* element twice.                                                          *)
(***************************************************************************)
NoDuplicateMembers ==
    /\ \A d \in DOMAIN users :
          /\ NoDuplicates(users[d].following)
          /\ NoDuplicates(users[d].followers)
          /\ NoDuplicates(users[d].savedPosts)
    /\ \A d \in DOMAIN photos :
          /\ NoDuplicates(photos[d].likes)
          /\ NoDuplicates(photos[d].saved)

\* A like with flag false (add) has been applied to a photo that already held
\* the user's like: the flag did not match the stored state.
MismatchedUnionApplied ==
    /\ nops = 1
    /\ calls["s1"].op = "updatePostLikesField"
    /\ calls["s1"].status = FALSE
    /\ calls["s1"].promise = "resolved"
    /\ photos["p1"].likes = <<"u2", "u1">>

(***************************************************************************)
(* C2.  Two calls of updateUserFollowingField for the same target with     *)
(* alternating status flags, each applied before the next call, leave the  *)
(* acting user's following set as it was before the two calls.             *)
(***************************************************************************)
RoundTripDone == nops = 2 /\ Completed("s1")

FollowingAsBefore ==
    \A d \in DocsOf(calls["s1"]) :
        Range(users[d].following) = Range(before[d].following)

\* As claimed: for every following set and either order of the flags.
RoundTripRestoresFollowing == RoundTripDone => FollowingAsBefore

\* The first call's flag (the opposite of the second's) told the truth about
\* every document of the acting user: true iff it followed the target.
FirstFlagMatched ==
    \A d \in DocsOf(calls["s1"]) :
        ~calls["s1"].status <=> calls["s1"].elem \in Range(before[d].following)

\* As amended: the round trip restores the set when the first flag matched.
RoundTripRestoresWhenFlagMatched ==
    (RoundTripDone /\ FirstFlagMatched) => FollowingAsBefore

\* An unfollow and the follow back have both been applied to a user who followed
\* two.
UnfollowFollowDone ==
    /\ RoundTripDone
    /\ FirstFlagMatched
    /\ ~calls["s1"].status
    /\ \E d \in DocsOf(calls["s1"]) : Len(before[d].following) = 2

(***************************************************************************)
(* C3.  A call that had a request fail at the service has a rejected       *)
(* promise.                                                                *)
(***************************************************************************)
FailurePropagates ==
    \A s \in Sessions : calls[s].failed => calls[s].promise = "rejected"

(***************************************************************************)
(* C4.  With every insert preceded by an existence check that returned 0,  *)
(* no two user documents carry the same username.                          *)
(***************************************************************************)
UsernamesUnique ==
    \A d, e \in DOMAIN users :
        d # e => users[d].username # users[e].username

(***************************************************************************)
(* C5.  The suggested profiles hold neither the requesting user nor a user *)
(* it follows, are at most limitQuery, and each is a document of `users`.  *)
(***************************************************************************)
SuggestionsExcludeSelfAndFollowed ==
    \A s \in Sessions :
        (calls[s].op = "getSuggestedProfilesByUserId"
            /\ calls[s].promise = "resolved")
        => LET r == calls[s].result
           IN  /\ Len(r) <= calls[s].limit
               /\ \A i \in 1..Len(r) :
                     /\ r[i].userId # calls[s].target
                     /\ r[i].userId \notin Range(calls[s].elem)
                     /\ r[i].docId \in DOMAIN users
                     /\ r[i] = [docId |-> r[i].docId] @@ users[r[i].docId]

\* Two of three documents were fetched and one of the two was filtered out.
SuggestionFilteredAfterLimit ==
    /\ calls["s1"].op = "getSuggestedProfilesByUserId"
    /\ calls["s1"].promise = "resolved"
    /\ calls["s1"].limit = 2
    /\ calls["s1"].elem # <<>>
    /\ Cardinality(DOMAIN users) = 3
    /\ Len(calls["s1"].result) = 1

(***************************************************************************)
(* C6.  The photos getUserPhotosByUserId returns are in descending order   *)
(* of dateCreated.                                                         *)
(***************************************************************************)
\* As claimed: strictly descending, also when two dates are equal.
NewestFirstStrictly ==
    \A s \in Sessions :
        (calls[s].op = "getUserPhotosByUserId" /\ calls[s].promise = "resolved")
        => LET r == calls[s].result
           IN  \A i \in 1..(Len(r) - 1) : r[i].dateCreated > r[i + 1].dateCreated

\* As amended: descending, equal dates allowed.
NewestFirst ==
    \A s \in Sessions :
        (calls[s].op = "getUserPhotosByUserId" /\ calls[s].promise = "resolved")
        => LET r == calls[s].result
           IN  \A i \in 1..(Len(r) - 1) : r[i].dateCreated >= r[i + 1].dateCreated

\* Three photos of the user were returned, two of them of the same date and
\* newer than the third, which was created first.
ThreePhotosSorted ==
    /\ calls["s1"].op = "getUserPhotosByUserId"
    /\ calls["s1"].promise = "resolved"
    /\ Len(calls["s1"].result) = 3
    /\ calls["s1"].result[1].dateCreated = calls["s1"].result[2].dateCreated
    /\ calls["s1"].result[2].dateCreated > calls["s1"].result[3].dateCreated
    /\ calls["s1"].result[3].docId = "p1"

(***************************************************************************)
(* C8.  In the feed, userLikedPhoto is true exactly when the calling user  *)
(* is in the photo's likes, and userSavedPhoto exactly when it is in the   *)
(* photo's saved.                                                          *)
(***************************************************************************)
FeedFlagsAreMembership ==
    \A s \in Sessions :
        (calls[s].op = "getFollowingUserPhotosByUserId"
            /\ calls[s].promise = "resolved")
        => LET r == calls[s].result
           IN  \A i \in 1..Len(r) :
                 /\ r[i].userLikedPhoto
                      <=> calls[s].target \in Range(photos[r[i].docId].likes)
                 /\ r[i].userSavedPhoto
                      <=> calls[s].target \in Range(photos[r[i].docId].saved)

\* The feed holds a photo the caller has liked and not saved, and one it has
\* saved and not liked.
FeedLikedNotSaved ==
    /\ calls["s1"].op = "getFollowingUserPhotosByUserId"
    /\ calls["s1"].promise = "resolved"
    /\ Len(calls["s1"].result) = 2
    /\ calls["s1"].result[1].userLikedPhoto
    /\ ~calls["s1"].result[1].userSavedPhoto
    /\ ~calls["s1"].result[2].userLikedPhoto
    /\ calls["s1"].result[2].userSavedPhoto

(***************************************************************************)
(* C7.  When the update of addPostComments is applied, the comments are    *)
(* left as they were if they hold an equal record, and otherwise the       *)
(* record is appended after the existing comments, whose order is kept.    *)
(***************************************************************************)
CommentAppendIsUnion ==
    [][\A w \in writes :
         (/\ w.field = "comments"
          /\ w \notin writes'
          /\ calls'[w.session].promise = "resolved")
         => LET c == calls[w.session].elem
                old == photos[w.doc].comments
                new == photos'[w.doc].comments
            IN  IF c \in Range(old) THEN new = old ELSE new = Append(old, c)]_vars

\* The same record has been added twice to one photo, which holds it once.
CommentAddedTwiceHeldOnce ==
    /\ \A s \in Sessions :
          /\ calls[s].op = "addPostComments"
          /\ calls[s].promise = "resolved"
          /\ calls[s].elem = "c3"
          /\ calls[s].target = "p1"
    /\ photos["p1"].comments = <<"c2", "c1", "c3">>

(***************************************************************************)
(* C9.  Two toggles of different elements on the same field of the same    *)
(* document, from two sessions, in any interleaving: once both have run to *)
(* their end, both effects are there.                                      *)
(***************************************************************************)
NoLostUpdate ==
    \A s, t \in Sessions :
        LET a == calls[s]
            b == calls[t]
        IN  (/\ s # t
             /\ a.op \in Toggles
             /\ a.op = b.op
             /\ DocsOf(a) \cap DocsOf(b) # {}
             /\ a.elem # b.elem
             /\ Completed(s)
             /\ Completed(t))
            => EffectPresent(a) /\ EffectPresent(b)

\* Two users have liked the same photo, each from its own session, and both
\* likes are stored.
BothLikesStored ==
    /\ calls["s1"].op = "updatePostLikesField"
    /\ calls["s2"].op = "updatePostLikesField"
    /\ calls["s1"].elem # calls["s2"].elem
    /\ ~calls["s1"].status /\ ~calls["s2"].status
    /\ Completed("s1") /\ Completed("s2")
    /\ Len(photos["p1"].likes) = 2
    /\ before = EmptyUsers

(***************************************************************************)
(* C10.  When exactly one of the two calls of a follow has failed and the  *)
(* other has been applied, the actor's following and the target's          *)
(* followers disagree, and the layer has nothing in flight that would      *)
(* repair it: the state stays so until the caller toggles again.           *)
(***************************************************************************)
PartialFailure ==
    /\ calls["s1"].op = "updateUserFollowingField"
    /\ calls["s2"].op = "updateUserFollowersField"
    /\ Settled("s1") /\ Settled("s2")
    /\ calls["s1"].failed # calls["s2"].failed

PartialFailureLeavesAsymmetry ==
    PartialFailure =>
        /\ Follows(calls["s1"].target, calls["s1"].elem)
              # FollowedBy(calls["s1"].elem, calls["s1"].target)
        /\ writes = {}
        /\ ~ENABLED (\/ FollowingQueryReturns("s1")
                     \/ \E w \in writes : ApplyWrite(w))

\* The following update was applied and the followers update failed.
FollowingWithoutFollower ==
    /\ PartialFailure
    /\ calls["s2"].failed
    /\ ~calls["s1"].status
    /\ Follows(calls["s1"].target, calls["s1"].elem)
    /\ ~FollowedBy(calls["s1"].elem, calls["s1"].target)

(***************************************************************************)
(* C11.  A read of the acting user's document that the caller issued after *)
(* the promise of updateUserFollowingField had resolved observes the new   *)
(* following set: the target is in it after a call with flag false, and    *)
(* out of it after a call with flag true.                                  *)
(***************************************************************************)
ReadAfterAwaitDone ==
    /\ calls["s1"].op = "updateUserFollowingField"
    /\ calls["s1"].promise = "resolved"
    /\ calls["s2"].op = "getUserDataByUserId"
    /\ calls["s2"].promise = "resolved"

ReadObservesNewFollowing ==
    ReadAfterAwaitDone =>
        \A i \in 1..Len(calls["s2"].result) :
            LET following == Range(calls["s2"].result[i].following)
            IN  IF calls["s1"].status
                THEN calls["s1"].elem \notin following
                ELSE calls["s1"].elem \in following

=============================================================================
